---- MODULE Spec2Model ----
(***************************************************************************)
(* Model of the tagged-result constructors Result.ok / Result.err of       *)
(* src/src/index.ts (the prefixing variant, lines 32-81).                   *)
(*                                                                         *)
(* JavaScript strings are sequences of one-character strings, so that the  *)
(* template literals `SUCCESS_${args[0]}` and `ERROR_${args[0]}` are real   *)
(* concatenations.  A JavaScript value is a record                         *)
(*     [kind, chars, n]                                                    *)
(* kind "string" uses chars, kind "number" uses n, kind "object" uses n as *)
(* the address of the object in the heap; "undefined", "null" and "symbol" *)
(* use neither.                                                            *)
(*                                                                         *)
(* heap holds the caller's payload objects, results the records the        *)
(* constructors have allocated, log the calls made with what each returned.*)
(* ctx and cell hold the activations of calls that run step by step in     *)
(* several execution contexts: ctx[c] is the position and the arguments of *)
(* context c, cell the storage of the local constant prefixedType.         *)
(* handled holds the outcomes of the handlers that consumed a result, and  *)
(* flow[c] the position and the local constants of the workflow that runs  *)
(* in context c.                                                           *)
(***************************************************************************)
EXTENDS Integers, Sequences, FiniteSets

VARIABLES heap, results, log, ctx, cell, handled, flow

vars == <<heap, results, log, ctx, cell, handled, flow>>

\* ---------------------------------------------------------------- bounds
MaxCalls == 2
MaxTagLen == 3
NumObjects == 1
NumContexts == 2

\* ------------------------------------------------------------ JS values
Str(cs) == [kind |-> "string", chars |-> cs, n |-> 0]
Num(k) == [kind |-> "number", chars |-> <<>>, n |-> k]
Obj(a) == [kind |-> "object", chars |-> <<>>, n |-> a]
Undefined == [kind |-> "undefined", chars |-> <<>>, n |-> 0]
Null == [kind |-> "null", chars |-> <<>>, n |-> 0]
Symbol == [kind |-> "symbol", chars |-> <<>>, n |-> 0]

\* The string literals of the source.
SUCCESS == <<"S", "U", "C", "C", "E", "S", "S">>
ERROR == <<"E", "R", "R", "O", "R">>
SUCCESS_ == <<"S", "U", "C", "C", "E", "S", "S", "_">>
ERROR_ == <<"E", "R", "R", "O", "R", "_">>

\* Completion records of an evaluation.
Return(v) == [completion |-> "return", value |-> v]
Throw(e) == [completion |-> "throw", value |-> e]

TypeError == [type |-> <<"T", "y", "p", "e", "E", "r", "r", "o", "r">>, data |-> Undefined]

\* Number::toString for the non-negative integers used as inputs.
Digit(k) == <<"0", "1", "2", "3", "4", "5", "6", "7", "8", "9">>[k + 1]

RECURSIVE NumberToString(_)
NumberToString(k) ==
    IF k < 10 THEN <<Digit(k)>>
    ELSE NumberToString(k \div 10) \o <<Digit(k % 10)>>

\* ToString as applied by a template literal substitution ${v}.
ToString(v) ==
    CASE v.kind = "string" -> Return(v.chars)
      [] v.kind = "number" -> Return(NumberToString(v.n))
      [] v.kind = "undefined" -> Return(<<"u", "n", "d", "e", "f", "i", "n", "e", "d">>)
      [] v.kind = "null" -> Return(<<"n", "u", "l", "l">>)
      [] v.kind = "object" ->
            Return(<<"[", "o", "b", "j", "e", "c", "t", " ", "O", "b", "j", "e", "c", "t", "]">>)
      [] v.kind = "symbol" -> Throw(TypeError)

\* String.prototype.toUpperCase on the characters used as inputs.
UpperChar(c) == IF c = "o" THEN "O" ELSE c

ToUpperCase(cs) == [i \in 1..Len(cs) |-> UpperChar(cs[i])]

\* `SUCCESS_${args[0]}` / `ERROR_${args[0]}`: the literal head followed by
\* the string conversion of the substitution.
TemplateLiteral(head, v) ==
    LET s == ToString(v)
    IN IF s.completion = "throw" THEN s ELSE Return(head \o s.value)

\* ------------------------------------------------------- the constructors
\* Faulty variants of ok: each is ok with one plausible slip.
\* The default form returns the lowercase tag of the unprefixed variant.
ok_lowercaseDefault(args) ==
    IF Len(args) = 1
    THEN Return([type |-> <<"s", "u", "c", "c", "e", "s", "s">>, data |-> args[1]])
    ELSE LET prefixedType == TemplateLiteral(SUCCESS_, args[1])
         IN IF prefixedType.completion = "throw" THEN prefixedType
            ELSE Return([type |-> prefixedType.value, data |-> args[2]])

\* The custom tag is upper-cased before it is prefixed.
ok_upperCased(args) ==
    IF Len(args) = 1
    THEN Return([type |-> SUCCESS, data |-> args[1]])
    ELSE LET prefixedType ==
                 IF args[1].kind = "string"
                 THEN TemplateLiteral(SUCCESS_, Str(ToUpperCase(args[1].chars)))
                 ELSE TemplateLiteral(SUCCESS_, args[1])
         IN IF prefixedType.completion = "throw" THEN prefixedType
            ELSE Return([type |-> prefixedType.value, data |-> args[2]])

\* A tag that already carries the prefix is not prefixed again.
ok_skipExistingPrefix(args) ==
    IF Len(args) = 1
    THEN Return([type |-> SUCCESS, data |-> args[1]])
    ELSE LET prefixedType ==
                 IF /\ args[1].kind = "string"
                    /\ Len(args[1].chars) >= Len(SUCCESS_)
                    /\ SubSeq(args[1].chars, 1, Len(SUCCESS_)) = SUCCESS_
                 THEN Return(args[1].chars)
                 ELSE TemplateLiteral(SUCCESS_, args[1])
         IN IF prefixedType.completion = "throw" THEN prefixedType
            ELSE Return([type |-> prefixedType.value, data |-> args[2]])

\* The forms are told apart by typeof args[0] === "string" instead of by the
\* number of arguments.
ok_dispatchOnTypeof(args) ==
    IF args[1].kind # "string"
    THEN Return([type |-> SUCCESS, data |-> args[1]])
    ELSE LET prefixedType == TemplateLiteral(SUCCESS_, args[1])
         IN IF prefixedType.completion = "throw" THEN prefixedType
            ELSE Return([type |-> prefixedType.value,
                         data |-> IF Len(args) >= 2 THEN args[2] ELSE Undefined])

\* The returned record carries a third field that names the constructor.
ok_extraField(args) ==
    IF Len(args) = 1
    THEN Return([type |-> SUCCESS, data |-> args[1], ok |-> TRUE])
    ELSE LET prefixedType == TemplateLiteral(SUCCESS_, args[1])
         IN IF prefixedType.completion = "throw" THEN prefixedType
            ELSE Return([type |-> prefixedType.value, data |-> args[2], ok |-> TRUE])

\* The forms are told apart by args[1] === undefined instead of by the number
\* of arguments.
ok_dispatchOnUndefined(args) ==
    IF Len(args) = 1 \/ args[2] = Undefined
    THEN Return([type |-> SUCCESS, data |-> args[1]])
    ELSE LET prefixedType == TemplateLiteral(SUCCESS_, args[1])
         IN IF prefixedType.completion = "throw" THEN prefixedType
            ELSE Return([type |-> prefixedType.value, data |-> args[2]])

\* function ok(...args: [D] | [T, D])
ok(args) ==
    IF Len(args) = 1
    THEN Return([type |-> SUCCESS, data |-> args[1]])
    ELSE LET prefixedType == TemplateLiteral(SUCCESS_, args[1])
         IN IF prefixedType.completion = "throw" THEN prefixedType
            ELSE Return([type |-> prefixedType.value, data |-> args[2]])

\* Faulty variants of err: each is err with one plausible slip.
\* The template literal lacks the separator.
err_noSeparator(args) ==
    IF Len(args) = 1
    THEN Return([type |-> ERROR, data |-> args[1]])
    ELSE LET prefixedType == TemplateLiteral(ERROR, args[1])
         IN IF prefixedType.completion = "throw" THEN prefixedType
            ELSE Return([type |-> prefixedType.value, data |-> args[2]])

\* The custom form stores args[0] instead of args[1] as the payload.
err_wrongPayloadIndex(args) ==
    IF Len(args) = 1
    THEN Return([type |-> ERROR, data |-> args[1]])
    ELSE LET prefixedType == TemplateLiteral(ERROR_, args[1])
         IN IF prefixedType.completion = "throw" THEN prefixedType
            ELSE Return([type |-> prefixedType.value, data |-> args[1]])

\* A runtime check rejects every tag that is not made of capital letters.
err_runtimeValidation(args) ==
    IF Len(args) = 1
    THEN Return([type |-> ERROR, data |-> args[1]])
    ELSE IF /\ args[1].kind = "string"
            /\ \E i \in 1..Len(args[1].chars) : args[1].chars[i] \in {"_", "o"}
         THEN Throw(TypeError)
         ELSE LET prefixedType == TemplateLiteral(ERROR_, args[1])
              IN IF prefixedType.completion = "throw" THEN prefixedType
                 ELSE Return([type |-> prefixedType.value, data |-> args[2]])

\* The body of ok pasted into err with only the default tag renamed.
err_pastedFromOk(args) ==
    IF Len(args) = 1
    THEN Return([type |-> ERROR, data |-> args[1]])
    ELSE LET prefixedType == TemplateLiteral(SUCCESS_, args[1])
         IN IF prefixedType.completion = "throw" THEN prefixedType
            ELSE Return([type |-> prefixedType.value, data |-> args[2]])

\* function err(...args: [D] | [T, D])
err(args) ==
    IF Len(args) = 1
    THEN Return([type |-> ERROR, data |-> args[1]])
    ELSE LET prefixedType == TemplateLiteral(ERROR_, args[1])
         IN IF prefixedType.completion = "throw" THEN prefixedType
            ELSE Return([type |-> prefixedType.value, data |-> args[2]])

\* export const Result = { ok, err }
Result(fn, args) == IF fn = "ok" THEN ok(args) ELSE err(args)

\* ---------------------------------------------- the unprefixed variant
\* The variant whose record is InternalResultUnion: the default tags are
\* lowercase and the custom tag is stored as passed, `type: args[0] as T`,
\* so the type field holds the first argument itself, a value of any kind.
success == <<"s", "u", "c", "c", "e", "s", "s">>

error == <<"e", "r", "r", "o", "r">>

\* Faulty variants of the unprefixed ok.
\* The default form returns the uppercase tag of the prefixing variants.
okUnion_uppercaseDefault(args) ==
    IF Len(args) = 1
    THEN Return([type |-> Str(SUCCESS), data |-> args[1]])
    ELSE Return([type |-> args[1], data |-> args[2]])

\* The custom form prefixes a string tag as the prefixing variants do.
okUnion_prefixed(args) ==
    IF Len(args) = 1
    THEN Return([type |-> Str(success), data |-> args[1]])
    ELSE Return([type |-> IF args[1].kind = "string"
                          THEN Str(SUCCESS_ \o args[1].chars)
                          ELSE args[1],
                 data |-> args[2]])

\* function ok(...args: [D] | [T, D]) of the unprefixed variant
okUnion(args) ==
    IF Len(args) = 1
    THEN Return([type |-> Str(success), data |-> args[1]])
    ELSE Return([type |-> args[1], data |-> args[2]])

\* Faulty variant of the unprefixed err: the custom form marks a string tag
\* with the default tag of err.
errUnion_marked(args) ==
    IF Len(args) = 1
    THEN Return([type |-> Str(error), data |-> args[1]])
    ELSE Return([type |-> IF args[1].kind = "string"
                          THEN Str(error \o <<"_">> \o args[1].chars)
                          ELSE args[1],
                 data |-> args[2]])

\* function err(...args: [D] | [T, D]) of the unprefixed variant
errUnion(args) ==
    IF Len(args) = 1
    THEN Return([type |-> Str(error), data |-> args[1]])
    ELSE Return([type |-> args[1], data |-> args[2]])

\* export const Result = { ok, err } of the unprefixed variant
ResultUnion(fn, args) == IF fn = "ok" THEN okUnion(args) ELSE errUnion(args)

\* ------------------------------------- the other prefixing variants
\* The variant whose overloads constrain the tag by
\* `T extends Uppercase<T> ? T : never` (src/src/index.ts:203-252).
\* Faulty variant: the tag is upper-cased at runtime, as the constraint of
\* the overload suggests.
okUppercaseChecked_enforced(args) ==
    IF Len(args) = 1
    THEN Return([type |-> SUCCESS, data |-> args[1]])
    ELSE LET prefixedType ==
                 IF args[1].kind = "string"
                 THEN TemplateLiteral(SUCCESS_, Str(ToUpperCase(args[1].chars)))
                 ELSE TemplateLiteral(SUCCESS_, args[1])
         IN IF prefixedType.completion = "throw" THEN prefixedType
            ELSE Return([type |-> prefixedType.value, data |-> args[2]])

\* function ok(...args: [D] | [T extends Uppercase<T> ? T : never, D])
okUppercaseChecked(args) ==
    IF Len(args) = 1
    THEN Return([type |-> SUCCESS, data |-> args[1]])
    ELSE LET prefixedType == TemplateLiteral(SUCCESS_, args[1])
         IN IF prefixedType.completion = "throw" THEN prefixedType
            ELSE Return([type |-> prefixedType.value, data |-> args[2]])

\* function err(...args: [D] | [T extends Uppercase<T> ? T : never, D])
errUppercaseChecked(args) ==
    IF Len(args) = 1
    THEN Return([type |-> ERROR, data |-> args[1]])
    ELSE LET prefixedType == TemplateLiteral(ERROR_, args[1])
         IN IF prefixedType.completion = "throw" THEN prefixedType
            ELSE Return([type |-> prefixedType.value, data |-> args[2]])

\* The variant kept in src/package.json (lines 88-137), whose record type is
\* ResultType.
\* function ok(...args: [D] | [T, D])
okPackaged(args) ==
    IF Len(args) = 1
    THEN Return([type |-> SUCCESS, data |-> args[1]])
    ELSE LET prefixedType == TemplateLiteral(SUCCESS_, args[1])
         IN IF prefixedType.completion = "throw" THEN prefixedType
            ELSE Return([type |-> prefixedType.value, data |-> args[2]])

\* function err(...args: [D] | [T extends Uppercase<T> ? T : never, D])
errPackaged(args) ==
    IF Len(args) = 1
    THEN Return([type |-> ERROR, data |-> args[1]])
    ELSE LET prefixedType == TemplateLiteral(ERROR_, args[1])
         IN IF prefixedType.completion = "throw" THEN prefixedType
            ELSE Return([type |-> prefixedType.value, data |-> args[2]])

\* ------------------------------------------------------- exported types
\* The tag that each exported result type denotes, as a function of its tag
\* parameter.  Uppercase<T> is the intrinsic type that maps a string literal
\* type to its upper-cased literal.
Uppercase(t) == ToUpperCase(t)

\* type SuccessResultType<T, D> =
\*     InternalResultType<T extends "" ? "SUCCESS" : `SUCCESS_${Uppercase<T>}`, D>
SuccessResultType(t) == IF t = <<>> THEN SUCCESS ELSE SUCCESS_ \o Uppercase(t)

\* type ErrorResultType<T, D> =
\*     InternalResultType<T extends "" ? "ERROR" : `ERROR_${Uppercase<T>}`, D>
ErrorResultType(t) == IF t = <<>> THEN ERROR ELSE ERROR_ \o Uppercase(t)

\* type DefaultSuccessResultType<D> = ResultType<"SUCCESS", D>
DefaultSuccessResultType == SUCCESS

\* type DefaultErrorResultType<D> = ResultType<"ERROR", D>
DefaultErrorResultType == ERROR

\* The constraint T extends Uppercase<string> on the tag parameter.
ExtendsUppercaseString(t) == Uppercase(t) = t

\* ---------------------------------------------------------------- inputs
TagAlphabet == {"_", "F", "O", "o"}

RECURSIVE SeqsUpTo(_, _)
SeqsUpTo(S, k) ==
    IF k = 0 THEN {<<>>}
    ELSE LET shorter == SeqsUpTo(S, k - 1)
         IN shorter \cup {Append(s, c) : s \in shorter, c \in S}

\* Custom tags that already start with a default tag and the separator.
PrefixedTags == {ERROR_ \o <<"F">>, SUCCESS_ \o <<"F">>}

StringTags == SeqsUpTo(TagAlphabet, MaxTagLen) \cup PrefixedTags

Addrs == 1..NumObjects

\* First arguments a caller without type checking can pass.
UntypedTags == {Num(123), Undefined, Null, Symbol} \cup {Obj(a) : a \in Addrs}

Tags == {Str(s) : s \in StringTags} \cup UntypedTags

Payloads == {Obj(a) : a \in Addrs} \cup {Str(<<"F">>), Undefined}

\* A lone argument is a payload of any kind, also a string.
LoneArgs == Payloads \cup {Str(s) : s \in StringTags}

ArgLists == {<<d>> : d \in LoneArgs} \cup {<<t, d>> : t \in Tags, d \in Payloads}

\* The inputs of the callers that build a collection of results.
CollectionTags == {Str(<<>>), Str(<<"F">>), Str(<<"o">>), Symbol}

CollectionArgLists ==
    {<<d>> : d \in Payloads} \cup {<<t, d>> : t \in CollectionTags, d \in Payloads}

\* The inputs of the calls that run concurrently.
ConcurrentArgLists ==
    {<<Obj(1)>>, <<Str(<<"F">>), Obj(1)>>, <<Str(<<"o">>), Undefined>>, <<Symbol, Undefined>>}

Contexts == 1..NumContexts

\* The custom tags of the union UserOperationResult that the handler of the
\* tests consumes, and the payloads of its results.
UserOperationSuccessTags ==
    {<<"U", "S", "E", "R", "_", "C", "R", "E", "A", "T", "E", "D">>,
     <<"U", "S", "E", "R", "_", "U", "P", "D", "A", "T", "E", "D">>}

UserOperationErrorTags ==
    {<<"U", "S", "E", "R", "_", "N", "O", "T", "_", "F", "O", "U", "N", "D">>,
     <<"V", "A", "L", "I", "D", "A", "T", "I", "O", "N", "_", "E", "R", "R", "O", "R">>,
     <<"P", "E", "R", "M", "I", "S", "S", "I", "O", "N", "_", "D", "E", "N", "I", "E", "D">>}

\* The calls that build a value of the union UserOperationResult.
UserOperationCalls ==
    {[fn |-> "ok", args |-> <<Str(t), [id |-> 1, name |-> "Alice"]>>] :
        t \in UserOperationSuccessTags}
    \cup {[fn |-> "err", args |-> <<Str(t), [message |-> "Invalid email"]>>] :
              t \in UserOperationErrorTags}

\* The responses of the mocked API of getUser; NoData is an absent data
\* property.
NoData == [id |-> 0, name |-> ""]

GetUserMockResponses ==
    [status : {200, 404, 500}, data : {NoData, [id |-> 123, name |-> "Alice"]},
     shouldThrow : BOOLEAN]

\* The inputs of the workflow: the user ids of the test, and the e-mail
\* address of the record that the mocked API serves (the test fixes it to
\* "invalid-email").
UserIds == {123, 999}

MockEmails ==
    {<<>>, <<"i", "n", "v", "a", "l", "i", "d", "-", "e", "m", "a", "i", "l">>,
     <<"a", "@", "b">>}

\* A local constant of a workflow that is not yet initialised.
Pending == [type |-> <<>>, data |-> Undefined]

IdleFlow ==
    [pc |-> "idle", userId |-> 0, email |-> <<>>, userResult |-> Pending,
     validationResult |-> Pending, returned |-> Pending]

\* ----------------------------------------------------------- state machine
Idle == [pc |-> "idle", fn |-> "", args |-> <<>>, raced |-> FALSE]

NoValue == Return(<<>>)

Init ==
    /\ heap = [a \in Addrs |-> FALSE]
    /\ results = <<>>
    /\ log = <<>>
    /\ ctx = [c \in Contexts |-> Idle]
    /\ cell = [c \in Contexts |-> NoValue]
    /\ handled = <<>>
    /\ flow = [c \in Contexts |-> IdleFlow]

\* Faulty variants of Call.
\* The constructor keeps one module-level record and rewrites it on every
\* call instead of building a new object literal.
Call_sharedRecord(fn, args, limit) ==
    /\ Len(log) < limit
    /\ LET c == Result(fn, args)
       IN IF c.completion = "return"
          THEN /\ results' = <<c.value>>
               /\ log' = Append(log, [fn |-> fn, args |-> args,
                                      completion |-> "return", ret |-> c.value,
                                      ref |-> 1])
          ELSE /\ results' = results
               /\ log' = Append(log, [fn |-> fn, args |-> args,
                                      completion |-> "throw", ret |-> c.value,
                                      ref |-> 0])
    /\ UNCHANGED <<heap, ctx, cell, handled, flow>>

\* The constructor remembers the last tag in a module-level variable and the
\* default form returns it.
Call_stickyTag(fn, args, limit) ==
    /\ Len(log) < limit
    /\ LET fresh == Result(fn, args)
           c == IF Len(args) = 1 /\ results # <<>>
                THEN Return([type |-> results[Len(results)].type, data |-> args[1]])
                ELSE fresh
       IN IF c.completion = "return"
          THEN /\ results' = Append(results, c.value)
               /\ log' = Append(log, [fn |-> fn, args |-> args,
                                      completion |-> "return", ret |-> c.value,
                                      ref |-> Len(results) + 1])
          ELSE /\ results' = results
               /\ log' = Append(log, [fn |-> fn, args |-> args,
                                      completion |-> "throw", ret |-> c.value,
                                      ref |-> 0])
    /\ UNCHANGED <<heap, ctx, cell, handled, flow>>

\* A caller evaluates Result.ok(...args) or Result.err(...args), as one of at
\* most `limit` calls.  A normal completion allocates the returned record; an
\* abrupt completion allocates nothing.  The payload objects are not touched.
Call(fn, args, limit) ==
    /\ Len(log) < limit
    /\ LET c == Result(fn, args)
       IN IF c.completion = "return"
          THEN /\ results' = Append(results, c.value)
               /\ log' = Append(log, [fn |-> fn, args |-> args,
                                      completion |-> "return", ret |-> c.value,
                                      ref |-> Len(results) + 1])
          ELSE /\ results' = results
               /\ log' = Append(log, [fn |-> fn, args |-> args,
                                      completion |-> "throw", ret |-> c.value,
                                      ref |-> 0])
    /\ UNCHANGED <<heap, ctx, cell, handled, flow>>

\* The caller writes a field of one of its own payload objects.
MutatePayload ==
    \E a \in Addrs :
        /\ heap' = [heap EXCEPT ![a] = ~heap[a]]
        /\ UNCHANGED <<results, log, ctx, cell, handled, flow>>

\* A program that builds a collection of results by successive calls.
CallOk == \E args \in CollectionArgLists : Call("ok", args, MaxCalls)

CallErr == \E args \in CollectionArgLists : Call("err", args, MaxCalls)

Next == CallOk \/ CallErr \/ MutatePayload

Spec == Init /\ [][Next]_vars

\* A program that makes a single call, with any argument list.
OkOnce == \E args \in ArgLists : Call("ok", args, 1)

ErrOnce == \E args \in ArgLists : Call("err", args, 1)

NextSingle == OkOnce \/ ErrOnce \/ MutatePayload

SingleCall == Init /\ [][NextSingle]_vars

\* A program that holds two results and also assigns to their data field,
\* which the record type allows (its fields are not readonly).
PairOk == \E args \in CollectionArgLists : Call("ok", args, 2)

PairErr == \E args \in CollectionArgLists : Call("err", args, 2)

WriteResultData ==
    \E r \in 1..Len(results) :
        /\ results[r].data # Null
        /\ results' = [results EXCEPT ![r].data = Null]
        /\ UNCHANGED <<heap, log, ctx, cell, handled, flow>>

NextAliasing == PairOk \/ PairErr \/ MutatePayload \/ WriteResultData

Aliasing == Init /\ [][NextAliasing]_vars

\* The inputs of the unprefixed variant: also the default tags themselves
\* passed as custom tags.
UnionArgLists ==
    ArgLists \cup {<<Str(t), d>> : t \in {success, error}, d \in Payloads}

\* A program that makes a single call of the unprefixed variant.
CallUnion(fn, args, limit) ==
    /\ Len(log) < limit
    /\ LET c == ResultUnion(fn, args)
       IN /\ results' = Append(results, c.value)
          /\ log' = Append(log, [fn |-> fn, args |-> args,
                                 completion |-> c.completion, ret |-> c.value,
                                 ref |-> Len(results) + 1])
    /\ UNCHANGED <<heap, ctx, cell, handled, flow>>

OkUnionOnce == \E args \in UnionArgLists : CallUnion("ok", args, 1)

ErrUnionOnce == \E args \in UnionArgLists : CallUnion("err", args, 1)

NextUnprefixed == OkUnionOnce \/ ErrUnionOnce \/ MutatePayload

Unprefixed == Init /\ [][NextUnprefixed]_vars

\* ------------------------------------------------- consumers of results
\* new Error(message)
Error(message) == [name |-> "Error", message |-> message]

\* Faulty variant of handleResult: the case "ERROR_PERMISSION_DENIED" is
\* missing from the switch.
handleResult_missingCase(result) ==
    CASE result.type \in {<<"S", "U", "C", "C", "E", "S", "S", "_", "U", "S", "E", "R", "_", "C", "R", "E", "A", "T", "E", "D">>,
                          <<"S", "U", "C", "C", "E", "S", "S", "_", "U", "S", "E", "R", "_", "U", "P", "D", "A", "T", "E", "D">>} ->
            Return(result.data)
      [] result.type \in {<<"E", "R", "R", "O", "R", "_", "U", "S", "E", "R", "_", "N", "O", "T", "_", "F", "O", "U", "N", "D">>,
                          <<"E", "R", "R", "O", "R", "_", "V", "A", "L", "I", "D", "A", "T", "I", "O", "N", "_", "E", "R", "R", "O", "R">>} ->
            Throw(Error(result.data.message))
      [] OTHER -> Throw(Error("Unhandled result type"))

\* function handleResult(result: UserOperationResult): the switch on
\* result.type with its five cases and the default.
handleResult(result) ==
    CASE result.type \in {<<"S", "U", "C", "C", "E", "S", "S", "_", "U", "S", "E", "R", "_", "C", "R", "E", "A", "T", "E", "D">>,
                          <<"S", "U", "C", "C", "E", "S", "S", "_", "U", "S", "E", "R", "_", "U", "P", "D", "A", "T", "E", "D">>} ->
            Return(result.data)
      [] result.type \in {<<"E", "R", "R", "O", "R", "_", "U", "S", "E", "R", "_", "N", "O", "T", "_", "F", "O", "U", "N", "D">>,
                          <<"E", "R", "R", "O", "R", "_", "V", "A", "L", "I", "D", "A", "T", "I", "O", "N", "_", "E", "R", "R", "O", "R">>,
                          <<"E", "R", "R", "O", "R", "_", "P", "E", "R", "M", "I", "S", "S", "I", "O", "N", "_", "D", "E", "N", "I", "E", "D">>} ->
            Throw(Error(result.data.message))
      [] OTHER -> Throw(Error("Unhandled result type"))

\* async function getUser(id, mockResponse): the throw of the try block is
\* caught and turned into Result.err({ message }).
getUser(id, mockResponse) ==
    IF mockResponse.shouldThrow
    THEN err(<<[message |-> "Network error"]>>)
    ELSE IF mockResponse.status = 404
    THEN err(<<Str(<<"N", "O", "T", "_", "F", "O", "U", "N", "D">>), [message |-> "User not found"]>>)
    ELSE IF mockResponse.status # 200
    THEN err(<<[message |-> "Failed to fetch user"]>>)
    ELSE LET user == IF mockResponse.data # NoData THEN mockResponse.data
                     ELSE [id |-> id, name |-> "Test User"]
         IN ok(<<Str(<<"U", "S", "E", "R", "_", "F", "O", "U", "N", "D">>), user>>)

\* switch (userResult.type) of the test of getUser: the result of the switch
\* is the value assigned to `result`.
switchUserResult(userResult) ==
    CASE userResult.type = <<"S", "U", "C", "C", "E", "S", "S", "_", "U", "S", "E", "R", "_", "F", "O", "U", "N", "D">> ->
            Return(userResult.data)
      [] userResult.type \in {<<"E", "R", "R", "O", "R", "_", "N", "O", "T", "_", "F", "O", "U", "N", "D">>,
                              <<"E", "R", "R", "O", "R">>} ->
            Return(userResult.data.message)
      [] OTHER -> Throw(Error("Unhandled result type"))

\* A caller builds a value of the union UserOperationResult.
BuildOperationResult == \E call \in UserOperationCalls : Call(call.fn, call.args, MaxCalls)

\* A caller awaits getUser(id, mockResponse).
GetUser ==
    \E id \in UserIds, mockResponse \in GetUserMockResponses :
        /\ Len(log) < MaxCalls
        /\ LET c == getUser(id, mockResponse)
           IN /\ results' = Append(results, c.value)
              /\ log' = Append(log, [fn |-> "getUser", args |-> <<id, mockResponse>>,
                                     completion |-> c.completion, ret |-> c.value,
                                     ref |-> Len(results) + 1])
        /\ UNCHANGED <<heap, ctx, cell, handled, flow>>

\* The next result is consumed: a value of UserOperationResult by
\* handleResult, a result of getUser by the switch of its test.
HandleResult ==
    /\ Len(handled) < Len(results)
    /\ LET r == Len(handled) + 1
       IN /\ log[r].fn \in {"ok", "err"}
          /\ handled' = Append(handled, handleResult(results[r]))
    /\ UNCHANGED <<heap, results, log, ctx, cell, flow>>

SwitchUserResult ==
    /\ Len(handled) < Len(results)
    /\ LET r == Len(handled) + 1
       IN /\ log[r].fn = "getUser"
          /\ handled' = Append(handled, switchUserResult(results[r]))
    /\ UNCHANGED <<heap, results, log, ctx, cell, flow>>

NextHandling == BuildOperationResult \/ GetUser \/ HandleResult \/ SwitchUserResult

Handling == Init /\ [][NextHandling]_vars

\* ------------------------------------------------------------ the workflow
\* String.prototype.includes for a one-character search string.
Includes(cs, ch) == \E k \in 1..Len(cs) : cs[k] = ch

\* async function fetchUser(userId): the mock of the API; email is the
\* address in the record it serves.
fetchUser(userId, email) ==
    IF userId = 999
    THEN err(<<Str(<<"A", "P", "I", "_", "E", "R", "R", "O", "R">>),
               [message |-> "User not found"]>>)
    ELSE ok(<<Str(<<"A", "P", "I", "_", "S", "U", "C", "C", "E", "S", "S">>),
              [data |-> [id |-> userId, name |-> "Test User", email |-> email]]>>)

\* function validateUser(userData)
validateUser(userData) ==
    IF userData.email = <<>> \/ ~Includes(userData.email, "@")
    THEN err(<<Str(<<"U", "S", "E", "R", "_", "I", "N", "V", "A", "L", "I", "D">>),
               [message |-> "Invalid email"]>>)
    ELSE ok(<<Str(<<"U", "S", "E", "R", "_", "V", "A", "L", "I", "D">>),
              [id |-> userData.id, name |-> userData.name]>>)

\* processUserWorkflow(userId) is called in context c.
StartWorkflow(c) ==
    \E userId \in UserIds, email \in MockEmails :
        /\ flow[c].pc = "idle"
        /\ flow' = [flow EXCEPT ![c] = [IdleFlow EXCEPT !.pc = "fetch", !.userId = userId,
                                                          !.email = email]]
        /\ UNCHANGED <<heap, results, log, ctx, cell, handled>>

\* Faulty variant of FetchUser: a failure is not returned as it is but
\* wrapped in a new default error.
FetchUser_rewrapped(c) ==
    /\ flow[c].pc = "fetch"
    /\ LET userResult == fetchUser(flow[c].userId, flow[c].email).value
       IN IF userResult.type # <<"S", "U", "C", "C", "E", "S", "S", "_", "A", "P", "I", "_", "S", "U", "C", "C", "E", "S", "S">>
          THEN flow' = [flow EXCEPT ![c].userResult = userResult,
                                    ![c].returned = err(<<userResult.data>>).value,
                                    ![c].pc = "returned"]
          ELSE flow' = [flow EXCEPT ![c].userResult = userResult, ![c].pc = "validate"]
    /\ UNCHANGED <<heap, results, log, ctx, cell, handled>>

\* const userResult = await fetchUser(userId);
\* if (userResult.type !== "SUCCESS_API_SUCCESS") return userResult;
FetchUser(c) ==
    /\ flow[c].pc = "fetch"
    /\ LET userResult == fetchUser(flow[c].userId, flow[c].email).value
       IN IF userResult.type # <<"S", "U", "C", "C", "E", "S", "S", "_", "A", "P", "I", "_", "S", "U", "C", "C", "E", "S", "S">>
          THEN flow' = [flow EXCEPT ![c].userResult = userResult,
                                    ![c].returned = userResult,
                                    ![c].pc = "returned"]
          ELSE flow' = [flow EXCEPT ![c].userResult = userResult, ![c].pc = "validate"]
    /\ UNCHANGED <<heap, results, log, ctx, cell, handled>>

\* const validationResult = validateUser(userResult.data.data);
\* if (validationResult.type !== "SUCCESS_USER_VALID") return validationResult;
ValidateUser(c) ==
    /\ flow[c].pc = "validate"
    /\ LET validationResult == validateUser(flow[c].userResult.data.data).value
       IN IF validationResult.type # <<"S", "U", "C", "C", "E", "S", "S", "_", "U", "S", "E", "R", "_", "V", "A", "L", "I", "D">>
          THEN flow' = [flow EXCEPT ![c].validationResult = validationResult,
                                    ![c].returned = validationResult,
                                    ![c].pc = "returned"]
          ELSE flow' = [flow EXCEPT ![c].validationResult = validationResult,
                                    ![c].pc = "complete"]
    /\ UNCHANGED <<heap, results, log, ctx, cell, handled>>

\* return Result.ok("WORKFLOW_COMPLETE", validationResult.data);
Complete(c) ==
    /\ flow[c].pc = "complete"
    /\ flow' = [flow EXCEPT
                   ![c].returned =
                       ok(<<Str(<<"W", "O", "R", "K", "F", "L", "O", "W", "_", "C", "O", "M", "P", "L", "E", "T", "E">>),
                            flow[c].validationResult.data>>).value,
                   ![c].pc = "returned"]
    /\ UNCHANGED <<heap, results, log, ctx, cell, handled>>

NextWorkflow ==
    \E c \in Contexts : StartWorkflow(c) \/ FetchUser(c) \/ ValidateUser(c) \/ Complete(c)

Workflow == Init /\ [][NextWorkflow]_vars

\* ------------------------------------------------- calls run step by step
\* Several execution contexts run ok and err one statement at a time, in any
\* interleaving.  Each activation has its own args and its own prefixedType.
Slot_moduleLevel(c) == 1

\* `const prefixedType` is local to the activation: one cell per context.
Slot(c) == c

\* The call is entered: the rest parameter args is bound.
Enter(c) ==
    \E fn \in {"ok", "err"}, args \in ConcurrentArgLists :
        /\ ctx[c].pc = "idle"
        /\ ctx' = [ctx EXCEPT ![c] = [pc |-> "branch", fn |-> fn, args |-> args,
                                      raced |-> FALSE]]
        /\ UNCHANGED <<heap, results, log, cell, handled, flow>>

\* if (args.length === 1) return { type: "SUCCESS", data: args[0] };
\* otherwise const prefixedType = `SUCCESS_${args[0]}` (for err: "ERROR").
Branch(c) ==
    /\ ctx[c].pc = "branch"
    /\ LET fn == ctx[c].fn
           args == ctx[c].args
           others == \E d \in Contexts \ {c} : ctx[d].pc \in {"branch", "build"}
       IN IF Len(args) = 1
          THEN LET rec == [type |-> IF fn = "ok" THEN SUCCESS ELSE ERROR, data |-> args[1]]
               IN /\ results' = Append(results, rec)
                  /\ log' = Append(log, [fn |-> fn, args |-> args,
                                         completion |-> "return", ret |-> rec,
                                         ref |-> Len(results) + 1])
                  /\ ctx' = [ctx EXCEPT ![c].pc = "done", ![c].raced = others]
                  /\ cell' = cell
          ELSE LET lit == TemplateLiteral(IF fn = "ok" THEN SUCCESS_ ELSE ERROR_, args[1])
               IN IF lit.completion = "throw"
                  THEN /\ log' = Append(log, [fn |-> fn, args |-> args,
                                              completion |-> "throw", ret |-> lit.value,
                                              ref |-> 0])
                       /\ ctx' = [ctx EXCEPT ![c].pc = "done", ![c].raced = others]
                       /\ UNCHANGED <<results, cell>>
                  ELSE /\ cell' = [cell EXCEPT ![Slot(c)] = lit]
                       /\ ctx' = [ctx EXCEPT ![c].pc = "build", ![c].raced = others]
                       /\ UNCHANGED <<results, log>>
    /\ UNCHANGED <<heap, handled, flow>>

\* return { type: prefixedType, data: args[1] };
Build(c) ==
    /\ ctx[c].pc = "build"
    /\ LET rec == [type |-> cell[Slot(c)].value, data |-> ctx[c].args[2]]
       IN /\ results' = Append(results, rec)
          /\ log' = Append(log, [fn |-> ctx[c].fn, args |-> ctx[c].args,
                                 completion |-> "return", ret |-> rec,
                                 ref |-> Len(results) + 1])
    /\ ctx' = [ctx EXCEPT ![c].pc = "done",
                          ![c].raced = @ \/ \E d \in Contexts \ {c} : ctx[d].pc = "build"]
    /\ UNCHANGED <<heap, cell, handled, flow>>

NextConcurrent == \E c \in Contexts : Enter(c) \/ Branch(c) \/ Build(c)

Concurrent == Init /\ [][NextConcurrent]_vars

\* ------------------------------------------------------------ properties
\* The calls made so far, by position in the log.
Calls == 1..Len(log)

\* The two call shapes of the overloads.
DefaultForm(e) == Len(e.args) = 1

CustomForm(e) == Len(e.args) = 2 /\ e.args[1].kind = "string"

\* The custom tag of a call in the custom form.
CustomTag(e) == e.args[1].chars

\* The default tag followed by the separator, as the documentation gives it.
DocPrefix(fn) ==
    IF fn = "ok" THEN <<"S", "U", "C", "C", "E", "S", "S", "_">>
    ELSE <<"E", "R", "R", "O", "R", "_">>

StartsWith(cs, head) == Len(cs) >= Len(head) /\ SubSeq(cs, 1, Len(head)) = head

\* C1: the one-argument calls ok(d) and err(d) return the bare default tag
\* "SUCCESS" / "ERROR", with no separator and no suffix, and data d.
C1_DefaultTagging ==
    \A i \in Calls :
        DefaultForm(log[i]) =>
            /\ log[i].completion = "return"
            /\ log[i].ret.type = (IF log[i].fn = "ok"
                                  THEN <<"S", "U", "C", "C", "E", "S", "S">>
                                  ELSE <<"E", "R", "R", "O", "R">>)
            /\ log[i].ret.data = log[i].args[1]

C1_Witness ==
    \E i \in Calls :
        /\ DefaultForm(log[i])
        /\ log[i].fn = "err"
        /\ log[i].args[1].kind = "object"
        /\ log[i].ret = [type |-> <<"E", "R", "R", "O", "R">>, data |-> log[i].args[1]]

\* C2: for a non-empty custom tag s, ok(s, d) returns type "SUCCESS_" + s and
\* err(s, d) returns type "ERROR_" + s: one underscore between the default
\* tag and s.
C2_CustomTagging ==
    \A i \in Calls :
        (CustomForm(log[i]) /\ CustomTag(log[i]) # <<>>) =>
            /\ log[i].completion = "return"
            /\ log[i].ret.type = DocPrefix(log[i].fn) \o CustomTag(log[i])

C2_Witness ==
    \E i \in Calls :
        /\ log[i].fn = "ok"
        /\ CustomForm(log[i])
        /\ CustomTag(log[i]) = <<"F", "O", "O">>
        /\ log[i].ret.type = <<"S", "U", "C", "C", "E", "S", "S", "_", "F", "O", "O">>

\* C3: a custom tag that already starts with the default tag and the
\* separator is not prefixed a second time: err("ERROR_F", d).type is
\* "ERROR_F" and ok("SUCCESS_F", d).type is "SUCCESS_F".
C3_PrefixNotDoubled ==
    \A i \in Calls :
        (CustomForm(log[i]) /\ StartsWith(CustomTag(log[i]), DocPrefix(log[i].fn))) =>
            /\ log[i].completion = "return"
            /\ log[i].ret.type = CustomTag(log[i])

C5_NoDoubleSeparator ==
    \A i \in Calls :
        (CustomForm(log[i]) /\ StartsWith(CustomTag(log[i]), <<"_">>)) =>
            /\ log[i].completion = "return"
            /\ LET t == log[i].ret.type
                   k == Len(DocPrefix(log[i].fn))
               IN ~(Len(t) > k /\ t[k] = "_" /\ t[k + 1] = "_")

\* C6: in every call, of either form, the data field of the returned record
\* is the payload argument itself (the same reference for an object), the
\* allocated record carries it, and the call leaves the payload objects as
\* they were.
C6_PayloadPassthrough ==
    [][Len(log') = Len(log) + 1 =>
          LET e == log'[Len(log')]
          IN /\ heap' = heap
             /\ e.completion = "return" =>
                   /\ e.ret.data = e.args[Len(e.args)]
                   /\ results'[e.ref].data = e.args[Len(e.args)]
                   /\ SubSeq(results', 1, Len(results)) = results]_vars

C6_Witness ==
    \E i \in Calls :
        /\ Len(log[i].args) = 2
        /\ log[i].fn = "err"
        /\ log[i].completion = "return"
        /\ log[i].args[2].kind = "object"
        /\ results[log[i].ref].data = log[i].args[2]
        /\ heap[log[i].args[2].n]

\* C7: a call with the empty string as the custom tag raises a usage error
\* and constructs no result; no result of type "ERROR_" or "SUCCESS_" exists.
C7_EmptyTagRejected ==
    /\ \A i \in Calls :
          (CustomForm(log[i]) /\ CustomTag(log[i]) = <<>>) =>
              log[i].completion = "throw" /\ log[i].ref = 0
    /\ \A r \in 1..Len(results) :
          results[r].type \notin {<<"E", "R", "R", "O", "R", "_">>,
                                  <<"S", "U", "C", "C", "E", "S", "S", "_">>}

\* C8: over the documented inputs (any payload, any non-empty string as the
\* custom tag) ok and err are total: every such call returns a result and
\* none throws.
C8_Total ==
    \A i \in Calls :
        (DefaultForm(log[i]) \/ (CustomForm(log[i]) /\ Len(CustomTag(log[i])) > 0)) =>
            /\ log[i].completion # "throw"
            /\ log[i].ref \in 1..Len(results)
            /\ results[log[i].ref] = log[i].ret

C8_Witness ==
    \E i \in Calls :
        /\ CustomForm(log[i])
        /\ CustomTag(log[i]) = <<"_", "o">>
        /\ log[i].args[2] = Undefined
        /\ log[i].completion = "return"
        /\ results[log[i].ref].data = Undefined

\* The characters of the inputs that toUpperCase would change.
HasLowercase(cs) == \E k \in 1..Len(cs) : cs[k] = "o"

\* C9: the casing of the custom tag does not matter at runtime: a tag with
\* lowercase characters is neither rejected nor changed, the returned type
\* is the prefix followed by the tag, character for character.
C9_CasingIgnored ==
    \A i \in Calls :
        (CustomForm(log[i]) /\ HasLowercase(CustomTag(log[i]))) =>
            LET s == CustomTag(log[i])
                t == log[i].ret.type
                k == Len(DocPrefix(log[i].fn))
            IN /\ log[i].completion = "return"
               /\ Len(t) = k + Len(s)
               /\ \A j \in 1..Len(s) : t[k + j] = s[j]
               /\ \A j \in 1..k : t[j] = DocPrefix(log[i].fn)[j]

C9_Witness ==
    \E i \in Calls :
        /\ log[i].fn = "ok"
        /\ CustomForm(log[i])
        /\ CustomTag(log[i]) = <<"F", "o", "o">>
        /\ log[i].ret.type = <<"S", "U", "C", "C", "E", "S", "S", "_", "F", "o", "o">>

\* The collection of results built by documented calls.
Collected == {i \in Calls : (DefaultForm(log[i]) \/ CustomForm(log[i])) /\ log[i].completion = "return"}

\* Two calls have the same constructor, the same form and the same custom tag.
SameShape(e, f) ==
    /\ e.fn = f.fn
    /\ Len(e.args) = Len(f.args)
    /\ Len(e.args) = 2 => e.args[1] = f.args[1]

\* Selecting from the collection the results whose type equals a literal.
SelectByType(lit) == {j \in Collected : results[log[j].ref].type = lit}

\* C10: selecting by equality on type isolates the results of one call
\* shape: the results whose type equals the type of a given result are
\* exactly those built by the same constructor, form and custom tag.
C10_Discrimination ==
    \A i \in Collected :
        SelectByType(log[i].ret.type) = {j \in Collected : SameShape(log[j], log[i])}

C10_Witness ==
    \E i, j \in Collected :
        /\ log[i].fn = "ok" /\ log[j].fn = "err"
        /\ CustomForm(log[i]) /\ CustomForm(log[j])
        /\ CustomTag(log[i]) = CustomTag(log[j])
        /\ SelectByType(log[i].ret.type) = {i}
        /\ SelectByType(log[j].ret.type) = {j}

\* The default tag of each constructor, as the documentation gives it.
DocDefault(fn) ==
    IF fn = "ok" THEN <<"S", "U", "C", "C", "E", "S", "S">>
    ELSE <<"E", "R", "R", "O", "R">>

\* C11: a call with exactly one argument treats it as the payload also when
\* it is a string: ok(x) returns type "SUCCESS" and data x, err(x) returns
\* type "ERROR" and data x; the lone string never becomes a custom tag.
C11_LoneStringIsPayload ==
    \A i \in Calls :
        (DefaultForm(log[i]) /\ log[i].args[1].kind = "string") =>
            /\ log[i].completion = "return"
            /\ log[i].ret.type = DocDefault(log[i].fn)
            /\ log[i].ret.type # DocPrefix(log[i].fn) \o log[i].args[1].chars
            /\ log[i].ret.data = log[i].args[1]
            /\ log[i].ret.data.kind = "string"

C11_Witness ==
    \E i \in Calls :
        /\ log[i].fn = "ok"
        /\ log[i].args = <<Str(<<"F", "O", "O">>)>>
        /\ log[i].ret = [type |-> <<"S", "U", "C", "C", "E", "S", "S">>,
                         data |-> Str(<<"F", "O", "O">>)]

\* The type with a leading "SUCCESS" replaced by "ERROR".
SuccessToError(t) ==
    IF StartsWith(t, <<"S", "U", "C", "C", "E", "S", "S">>)
    THEN <<"E", "R", "R", "O", "R">> \o SubSeq(t, 8, Len(t))
    ELSE t

\* C12: err is symmetric to ok: on the same argument list err completes as
\* ok does, with the same data and with the type of ok in which the leading
\* "SUCCESS" is replaced by "ERROR".
C12_ErrSymmetricToOk ==
    \A i \in Calls :
        LET e == log[i]
            made == [completion |-> e.completion, value |-> e.ret]
            okOut == IF e.fn = "ok" THEN made ELSE ok(e.args)
            errOut == IF e.fn = "err" THEN made ELSE err(e.args)
        IN /\ errOut.completion = okOut.completion
           /\ okOut.completion = "throw" => errOut.value = okOut.value
           /\ okOut.completion = "return" =>
                 /\ StartsWith(okOut.value.type, <<"S", "U", "C", "C", "E", "S", "S">>)
                 /\ errOut.value = [type |-> SuccessToError(okOut.value.type),
                                    data |-> okOut.value.data]

C12_Witness ==
    \E i \in Calls :
        /\ log[i].fn = "err"
        /\ log[i].args = <<Str(<<"S", "U", "C", "C", "E", "S", "S", "_", "F">>), Obj(1)>>
        /\ log[i].ret.type = <<"E", "R", "R", "O", "R", "_", "S", "U", "C", "C", "E", "S", "S", "_", "F">>
        /\ ok(log[i].args).value.type =
              <<"S", "U", "C", "C", "E", "S", "S", "_", "S", "U", "C", "C", "E", "S", "S", "_", "F">>

\* C13: the value built at runtime carries the tag its exported type
\* denotes: for every tag t the tag parameter admits, the empty string
\* included, ok(t, d).type is the tag of SuccessResultType<t, D> and
\* err(t, d).type the tag of ErrorResultType<t, D>; ok(d) and err(d) carry
\* the tags of DefaultSuccessResultType<D> and DefaultErrorResultType<D>.
C13_RuntimeConformsToTypes ==
    \A i \in Calls :
        /\ DefaultForm(log[i]) =>
              log[i].ret.type = (IF log[i].fn = "ok" THEN DefaultSuccessResultType
                                 ELSE DefaultErrorResultType)
        /\ (CustomForm(log[i]) /\ ExtendsUppercaseString(CustomTag(log[i]))) =>
              log[i].ret.type = (IF log[i].fn = "ok"
                                 THEN SuccessResultType(CustomTag(log[i]))
                                 ELSE ErrorResultType(CustomTag(log[i])))

\* The lowercase letters of the characters that occur in types.
LowercaseLetters ==
    {"a", "b", "c", "d", "e", "f", "g", "h", "i", "j", "k", "l", "m",
     "n", "o", "p", "q", "r", "s", "t", "u", "v", "w", "x", "y", "z"}

IsUppercaseString(cs) == \A k \in 1..Len(cs) : cs[k] \notin LowercaseLetters

\* The documented pattern: "SUCCESS" | `SUCCESS_${Uppercase<string>}` for ok,
\* "ERROR" | `ERROR_${Uppercase<string>}` for err.
FollowsPattern(fn, t) ==
    \/ t = DocDefault(fn)
    \/ /\ StartsWith(t, DocPrefix(fn))
       /\ IsUppercaseString(SubSeq(t, Len(DocPrefix(fn)) + 1, Len(t)))

\* C15 as stated: every result returned by Result.ok follows the pattern
\* "SUCCESS" or "SUCCESS_" + uppercase string, and every result returned by
\* Result.err the pattern "ERROR" or "ERROR_" + uppercase string.
C15_AlwaysFollowsPattern ==
    \A i \in Calls :
        log[i].completion = "return" => FollowsPattern(log[i].fn, log[i].ret.type)

\* C15 as amended: the result follows the pattern when the call is in the
\* default form or its custom tag is a string without lowercase characters,
\* as the tag parameter's type Uppercase<string> requires.
C15_FollowsPatternForUppercaseTags ==
    \A i \in Calls :
        (DefaultForm(log[i]) \/ (CustomForm(log[i]) /\ IsUppercaseString(CustomTag(log[i])))) =>
            /\ log[i].completion = "return"
            /\ FollowsPattern(log[i].fn, log[i].ret.type)

C15_Witness ==
    \E i \in Calls :
        /\ log[i].fn = "ok"
        /\ CustomForm(log[i])
        /\ CustomTag(log[i]) = <<"F", "_", "O">>
        /\ log[i].ret.type = <<"S", "U", "C", "C", "E", "S", "S", "_", "F", "_", "O">>
        /\ FollowsPattern("ok", log[i].ret.type)

\* The calls that returned a result.
Returned == {i \in Calls : log[i].completion = "return"}

View(rs, h, r) ==
    [type |-> rs[r].type,
     data |-> rs[r].data,
     content |-> IF rs[r].data.kind = "object" THEN h[rs[r].data.n] ELSE FALSE]

\* A step changes the object that the data field of record r refers to.
PayloadChangedThrough(r) ==
    /\ results[r].data.kind = "object"
    /\ heap'[results[r].data.n] # heap[results[r].data.n]

Alone(fn, args) == IF fn = "ok" THEN ok(args) ELSE err(args)

\* C18: when several execution contexts run ok and err in any interleaving
\* of their steps, every call completes with the result it returns when it
\* runs alone, in a record of its own.
C18_SafeUnderInterleaving ==
    /\ \A i \in Calls :
          /\ log[i].completion = Alone(log[i].fn, log[i].args).completion
          /\ log[i].ret = Alone(log[i].fn, log[i].args).value
          /\ log[i].completion = "return" => results[log[i].ref] = log[i].ret
    /\ \A i, j \in Returned : i # j => log[i].ref # log[j].ref
    /\ \A c \in Contexts :
          ctx[c].pc = "done" => \E i \in Calls : log[i].fn = ctx[c].fn /\ log[i].args = ctx[c].args

C18_Witness ==
    \E c, d \in Contexts :
        /\ c # d
        /\ ctx[c].pc = "done" /\ ctx[d].pc = "done"
        /\ ctx[c].raced /\ ctx[d].raced
        /\ Len(ctx[c].args) = 2 /\ Len(ctx[d].args) = 2
        /\ ctx[c].args[1] = Str(<<"F">>)
        /\ ctx[d].args[1] = Str(<<"o">>)
        /\ cell[c] # cell[d]

C20_TypeNonEmptyString ==
    \A i \in Returned :
        (DefaultForm(log[i]) \/ CustomForm(log[i])) =>
            /\ results[log[i].ref].type.kind = "string"
            /\ results[log[i].ref].type.chars # <<>>

\* The same statement for the records of the prefixing variant, whose type
\* field holds the characters of the template literal.
C20_PrefixedTypeNonEmpty ==
    \A i \in Returned : Len(results[log[i].ref].type) > 0

\* C21: every result returned by ok or err is a record with exactly the two
\* fields type and data: ok(d) is structurally equal to
\* { type: "SUCCESS", data: d } and err(s, d), for a non-empty string s, to
\* { type: "ERROR_" + s, data: d } (likewise err(d) and ok(s, d)).
C21_ExactlyTypeAndData ==
    \A i \in Returned :
        LET e == log[i]
            rec == results[e.ref]
        IN /\ DOMAIN rec = {"type", "data"}
           /\ DOMAIN e.ret = {"type", "data"}
           /\ DefaultForm(e) => rec = [type |-> DocDefault(e.fn), data |-> e.args[1]]
           /\ (CustomForm(e) /\ CustomTag(e) # <<>>) =>
                 rec = [type |-> DocPrefix(e.fn) \o CustomTag(e), data |-> e.args[2]]

C21_Witness ==
    \E i \in Returned :
        /\ log[i].fn = "err"
        /\ log[i].args = <<Str(<<"F", "_", "F">>), Obj(1)>>
        /\ DOMAIN results[log[i].ref] = {"type", "data"}
        /\ results[log[i].ref] =
              [type |-> <<"E", "R", "R", "O", "R", "_", "F", "_", "F">>, data |-> Obj(1)]

\* C22: a call whose custom tag is not a string (a number, null or
\* undefined as the first of two arguments) fails with a usage error and
\* returns no result; the tag is never coerced into a type such as
\* "ERROR_123" or "SUCCESS_undefined".
C22_NonStringTagRejected ==
    \A i \in Calls :
        (Len(log[i].args) = 2 /\ log[i].args[1].kind \in {"number", "null", "undefined"}) =>
            /\ log[i].completion = "throw"
            /\ log[i].ref = 0

\* The default tags as the documentation of the unprefixed variant gives them.
DocLowercaseDefault(fn) ==
    IF fn = "ok" THEN <<"s", "u", "c", "c", "e", "s", "s">>
    ELSE <<"e", "r", "r", "o", "r">>

DocumentedShapes ==
    {[fn |-> fn, args |-> a] :
        fn \in {"ok", "err"},
        a \in {<<Undefined>>} \cup {<<Str(s), Undefined>> : s \in StringTags}}

\* C27: the derivation of the type is injective over the calls ok(d),
\* ok(s, d), err(d), err(s, d) with a string s: a call returns the type of
\* another call only if both used the same constructor, the same form and
\* the same custom tag; no type of ok is a type of err, and the type of a
\* custom-tagged call is never a bare default tag.
C27_TagDerivationInjective ==
    \A i \in Collected :
        LET e == log[i]
        IN /\ \A f \in DocumentedShapes :
                 Result(f.fn, f.args).value.type = e.ret.type => SameShape(f, e)
           /\ \A f \in DocumentedShapes :
                 f.fn # e.fn => Result(f.fn, f.args).value.type # e.ret.type
           /\ CustomForm(e) => e.ret.type \notin {DocDefault("ok"), DocDefault("err")}

C27_Witness ==
    \E i \in Collected :
        /\ log[i].fn = "err"
        /\ CustomForm(log[i])
        /\ CustomTag(log[i]) = <<>>
        /\ log[i].ret.type = <<"E", "R", "R", "O", "R", "_">>
        /\ err(<<log[i].args[2]>>).value.type # log[i].ret.type

\* C28: the form is chosen by the number of arguments alone: a call with one
\* argument returns the default tag with that argument as data, also when
\* the argument is undefined; a call with a string s and a payload returns
\* the prefixed tag with the payload as data, also when the payload is
\* undefined; a returned type is the default tag exactly when one argument
\* was passed.
C28_FormByArgumentCount ==
    \A i \in Calls :
        LET e == log[i]
        IN /\ Len(e.args) = 1 =>
                 /\ e.completion = "return"
                 /\ e.ret = [type |-> DocDefault(e.fn), data |-> e.args[1]]
           /\ CustomForm(e) =>
                 /\ e.completion = "return"
                 /\ e.ret = [type |-> DocPrefix(e.fn) \o CustomTag(e), data |-> e.args[2]]
           /\ e.completion = "return" =>
                 (e.ret.type = DocDefault(e.fn) <=> Len(e.args) = 1)

C28_Witness ==
    \E i \in Calls :
        /\ log[i].fn = "ok"
        /\ log[i].args = <<Str(<<"F">>), Undefined>>
        /\ log[i].ret = [type |-> <<"S", "U", "C", "C", "E", "S", "S", "_", "F">>,
                         data |-> Undefined]
        /\ ok(<<Undefined>>).value = [type |-> <<"S", "U", "C", "C", "E", "S", "S">>,
                                      data |-> Undefined]

\* The outcome of a call in each of the other two prefixing variants.
ResultUppercaseChecked(fn, args) ==
    IF fn = "ok" THEN okUppercaseChecked(args) ELSE errUppercaseChecked(args)

ResultPackaged(fn, args) == IF fn = "ok" THEN okPackaged(args) ELSE errPackaged(args)

\* C29: the three prefixing variants of ok and err are equivalent at
\* runtime: on every argument list all three complete alike, return
\* structurally equal results or throw the same error.
C29_VariantsEquivalent ==
    \A i \in Calls :
        LET e == log[i]
            made == [completion |-> e.completion, value |-> e.ret]
        IN /\ ResultUppercaseChecked(e.fn, e.args) = made
           /\ ResultPackaged(e.fn, e.args) = made
           /\ ResultUppercaseChecked(e.fn, e.args) = ResultPackaged(e.fn, e.args)

C29_Witness ==
    \E i \in Calls :
        /\ log[i].fn = "ok"
        /\ log[i].args = <<Str(<<"o", "F">>), Obj(1)>>
        /\ log[i].completion = "return"
        /\ okUppercaseChecked(log[i].args).value.type =
              <<"S", "U", "C", "C", "E", "S", "S", "_", "o", "F">>
        /\ okPackaged(log[i].args).value = log[i].ret

\* C30: in the unprefixed variant a custom-tagged result does not tell which
\* constructor built it: ok(t, d) and err(t, d) return structurally equal
\* results for every t and d, and ok("success", d) equals ok(d); in the
\* prefixing variant ok(t, d) and err(t, d) differ in type for every string t.
C30_ConstructorNotRecoverable ==
    \A i \in Calls :
        LET e == log[i]
        IN /\ Len(e.args) = 2 =>
                 /\ okUnion(e.args) = errUnion(e.args)
                 /\ e.ret = okUnion(e.args).value
                 /\ e.ret = errUnion(e.args).value
           /\ (CustomForm(e) /\ CustomTag(e) = <<"s", "u", "c", "c", "e", "s", "s">>) =>
                 okUnion(e.args) = okUnion(<<e.args[2]>>)
           /\ CustomForm(e) => ok(e.args).value.type # err(e.args).value.type

C30_Witness ==
    \E i \in Calls :
        /\ log[i].fn = "err"
        /\ log[i].args = <<Str(<<"s", "u", "c", "c", "e", "s", "s">>), Obj(1)>>
        /\ log[i].ret = okUnion(<<Obj(1)>>).value
        /\ ok(log[i].args).value.type # err(log[i].args).value.type

\* The results that a handler has consumed, by position.
Handled == 1..Len(handled)

\* C25: a handler that switches on result.type with one case for each tag
\* of the declared union matches every result that ok and err construct
\* with the tags of the union, the default forms included: the default
\* branch is never taken, a success result yields its data and an error
\* result takes the error branch with the message of its data.
C25_ExhaustiveHandling ==
    \A k \in Handled :
        LET e == log[k]
            result == results[k]
            outcome == handled[k]
            built == IF e.fn = "getUser" THEN (IF StartsWith(result.type, DocDefault("ok"))
                                               THEN "ok" ELSE "err")
                     ELSE e.fn
        IN /\ outcome # Throw(Error("Unhandled result type"))
           /\ StartsWith(result.type, DocDefault(built))
           /\ built = "ok" => outcome = Return(result.data)
           /\ (built = "err" /\ e.fn = "err") => outcome = Throw(Error(result.data.message))
           /\ (built = "err" /\ e.fn = "getUser") => outcome = Return(result.data.message)

C25_Witness ==
    \E j, k \in Handled :
        /\ log[j].fn = "err"
        /\ results[j].type = <<"E", "R", "R", "O", "R", "_", "P", "E", "R", "M", "I", "S", "S", "I", "O", "N", "_", "D", "E", "N", "I", "E", "D">>
        /\ handled[j] = Throw(Error("Invalid email"))
        /\ log[k].fn = "getUser"
        /\ results[k].type = <<"E", "R", "R", "O", "R">>
        /\ handled[k] = Return("Failed to fetch user")

\* The expected success tag of each stage and the tag of a completed
\* workflow, as the documentation gives them.
StageOneTag == <<"S", "U", "C", "C", "E", "S", "S", "_", "A", "P", "I", "_", "S", "U", "C", "C", "E", "S", "S">>

StageTwoTag == <<"S", "U", "C", "C", "E", "S", "S", "_", "U", "S", "E", "R", "_", "V", "A", "L", "I", "D">>

CompleteTag == <<"S", "U", "C", "C", "E", "S", "S", "_", "W", "O", "R", "K", "F", "L", "O", "W", "_", "C", "O", "M", "P", "L", "E", "T", "E">>

\* C26: a workflow returns the result of the first stage whose type is not
\* the expected success tag of that stage, unchanged, and runs no later
\* stage; it returns a result of type "SUCCESS_WORKFLOW_COMPLETE" only if
\* every stage returned its expected success tag; and once it has returned
\* it runs nothing more.
C26_FirstFailurePropagates ==
    /\ [](\A c \in Contexts :
            LET f == flow[c]
            IN /\ f.validationResult # Pending => f.userResult.type = StageOneTag
               /\ f.pc # "returned" => f.returned = Pending
               /\ f.pc = "returned" =>
                     /\ f.userResult # Pending
                     /\ f.userResult.type # StageOneTag =>
                           f.returned = f.userResult /\ f.validationResult = Pending
                     /\ f.userResult.type = StageOneTag =>
                           /\ f.validationResult # Pending
                           /\ f.validationResult.type # StageTwoTag =>
                                 f.returned = f.validationResult
                           /\ f.validationResult.type = StageTwoTag =>
                                 f.returned = [type |-> CompleteTag,
                                               data |-> f.validationResult.data]
               /\ f.returned.type = CompleteTag =>
                     /\ f.userResult.type = StageOneTag
                     /\ f.validationResult.type = StageTwoTag)
    /\ [][\A c \in Contexts : flow[c].pc = "returned" => flow'[c] = flow[c]]_vars

C26_Witness ==
    \E c, d \in Contexts :
        /\ flow[c].pc = "returned"
        /\ flow[c].returned.type = <<"E", "R", "R", "O", "R", "_", "A", "P", "I", "_", "E", "R", "R", "O", "R">>
        /\ flow[c].returned = flow[c].userResult
        /\ flow[c].validationResult = Pending
        /\ flow[d].pc = "returned"
        /\ flow[d].returned.type = CompleteTag
        /\ flow[d].returned.data = [id |-> 123, name |-> "Test User"]

====
